---- MODULE Spec2Model ----
(***************************************************************************)
(* State-machine model of the entry generation-and-validation pipeline of *)
(* german_tutor_bot:                                                       *)
(*   - Validator.call_responses_with_backoff  (src/src/validator.py)       *)
(*   - DataGenerator.__call__ / call_openai_with_backoff / write_json      *)
(*                                            (src/src/data_generator.py)  *)
(*   - TextNormalizer.normalize_to_bot_schema (src/src/text_normalizer.py) *)
(*                                                                         *)
(* Python strings are modelled as sequences of one-character strings, so   *)
(* that substring tests, prefixes and concatenation are computed.  Python  *)
(* None is the value None below, which is no such sequence.                *)
(***************************************************************************)
EXTENDS Integers, Sequences, FiniteSets, TLC

VARIABLES
    \* ---- Validator.call_responses_with_backoff ----
    max_retries,    \* self.config.max_retries of the Validator
    stubFails,      \* transport stub: number of leading attempts that fail
    stubAlways,     \* transport stub: TRUE when every attempt fails
    stubPayload,    \* value the stub's well-formed output text decodes to
    v_pc,           \* position of the call: "try", "sleep", "returned", "raised"
    attempt,        \* local variable attempt
    v_calls,        \* number of client.responses.create invocations so far
    v_sleeps,       \* the time.sleep durations so far (ms), in order
    v_lastErr,      \* exception caught by the latest except clause, or NoCause
    v_result,       \* value returned by the call, or NoResult
    v_raised,       \* exception that left the call, or NoError
    \* ---- DataGenerator.__call__ ----
    g_input,        \* the argument words: a str or a list of str
    g_main,         \* TRUE when data_generator.py runs as __main__ (global cfg bound)
    g_pc,           \* "start", "loop", "done", "failed"
    g_words,        \* local words after the isinstance(words, str) wrapping
    g_i,            \* 1-based index of the lemma being generated
    g_entries,      \* local list entries
    g_calls,        \* number of client.responses.create invocations so far
    g_attempts,     \* invocations made for the lemma whose generation failed
    g_cause,        \* exception caught by call_openai_with_backoff, or NoCause
    g_raised,       \* exception that left __call__, or NoError
    outFile,        \* content of config.output_path
    g_writes,       \* number of write_text calls on config.output_path
    \* ---- TextNormalizer.normalize_to_bot_schema ----
    n_pc,           \* "ready" before the coercion, "done" after
    n_in,           \* the decoded model response handed to the coercion
    n_out,          \* the coerced entry, or NoEntry
    \* ---- TextNormalizer.norm_* ----
    t_pc,           \* "ready" before the normalisation, "done" after
    t_in,           \* the string handed to the normalisers
    t_out,          \* the normalisers' results, or NoText
    \* ---- Validator field judgements ----
    j_pc,           \* "ready" before the judgement, "done" after
    j_case,         \* the field, the stored values and the returned candidates
    j_verdict,      \* the report item {field, pass, candidates}, or NoVerdict
    \* ---- validator.main and Validator.validate_entry ----
    m_db,           \* main: the list of entries loaded from the JSON file
    m_i,            \* main: 1-based index of the entry being validated
    m_pc,           \* main: "next", "validating", "written", "aborted"
    m_report,       \* main: local list report
    reportFile,     \* content of validation_report.json
    m_summary,      \* the printed "Checks: total, failed: n" line, or NoSummary
    e_pc,           \* validate_entry: "prompt", the field being checked, "return", "returned", "raised"
    e_results,      \* validate_entry: local list results
    e_called,       \* fields for which call_responses_with_backoff was invoked
    e_exhaustedAt,  \* field whose call ran out of retries, or "none"
    e_raised,       \* exception that left validate_entry, or NoError
    e_ret,          \* value returned by validate_entry, or NoReturn
    e_attempts,     \* responses.create invocations of the latest call
    \* ---- update_database ----
    u_pc,           \* "load", "loop", "save", "done", "exit"
    u_args,         \* the content of the database file and of the input file
    u_db,           \* local list db_data
    u_input,        \* local list input_data
    u_i,            \* 1-based index of the input entry being processed
    u_map,          \* local dict db_index_map
    u_stats,        \* local dict stats
    dbFile,         \* content of db_file
    u_run,          \* number of the update_database run (1 or 2)
    u_first,        \* content of db_file after the first run, NoFile before
    \* ---- bot.py: one user's session ----
    WORDS_DB,       \* the list of entries loaded from database/db.json
    active_exercise,\* context.user_data['active_exercise'] (FALSE while unset)
    current_answer, \* context.user_data['current_answer'] (Absent while unset)
    exercise_type,  \* context.user_data['exercise_type'] (0 while unset)
    b_pc,           \* "idle" between updates, "hint" inside cmd_hint's loop
    attempts,       \* cmd_hint: local attempts
    distractors,    \* cmd_hint: local list distractors
    b_event         \* the update handled last and what its handler did

callerVars == <<max_retries, stubFails, stubAlways, stubPayload, v_pc, attempt,
                v_calls, v_sleeps, v_lastErr, v_result, v_raised>>
genVars    == <<g_input, g_main, g_pc, g_words, g_i, g_entries, g_calls,
                g_attempts, g_cause, g_raised, outFile, g_writes>>
normVars   == <<n_pc, n_in, n_out>>
textVars   == <<t_pc, t_in, t_out>>
judgeVars  == <<j_pc, j_case, j_verdict>>
valVars    == <<m_db, m_i, m_pc, m_report, reportFile, m_summary, e_pc, e_results,
                e_called, e_exhaustedAt, e_raised, e_ret, e_attempts>>
mergeVars  == <<u_pc, u_args, u_db, u_input, u_i, u_map, u_stats, dbFile, u_run,
                u_first>>
botVars    == <<WORDS_DB, active_exercise, current_answer, exercise_type, b_pc,
                attempts, distractors, b_event>>
vars       == <<callerVars, genVars, normVars, textVars, judgeVars, valVars,
                mergeVars, botVars>>

----------------------------------------------------------------------------
(* Values                                                                   *)

None == <<"None">>

IsStr(x) == x # None

\* exceptions: an attempt's failure is [type, at]; an exception leaving a call
\* is [type, cause, context] with __cause__ and __context__ (NoCause when unset)
NoCause == [type |-> "none", at |-> 0]
NoError == [type |-> "none", cause |-> NoCause, context |-> NoCause]
NoResult == "no result"

Min(a, b) == IF a <= b THEN a ELSE b

RECURSIVE Pow2(_)
Pow2(n) == IF n <= 0 THEN 1 ELSE 2 * Pow2(n - 1)

\* all strings over alphabet A of length at most n
StringsUpTo(A, n) == UNION {[1..k -> A] : k \in 0..n}

----------------------------------------------------------------------------
(* Validator.call_responses_with_backoff                                    *)

DefaultMaxRetries == 3
BaseBackoffMs == 800

\* bounds of the caller model
MaxRetriesBound == 4
MaxStubFails == 6
JitterTenths == {7, 10, 12}
Payloads == {"p1", "p2"}
FailureKinds == {"transport", "decode"}

\* the exception an attempt raises: responses.create fails (transport) or
\* json.loads rejects the output text (decode); k is the attempt's number
AttemptError(kind, k) == [type |-> kind, at |-> k]

\* does the stub make invocation number k (1-based) fail?
StubFailsAt(k) == stubAlways \/ k <= stubFails

RetriesExhausted_offByOne(a, m) == a >= m
RetriesExhausted_oneMore(a, m) == a > m + 1
\* if attempt > self.config.max_retries
RetriesExhausted(a, m) == a > m

SleepMs(a, jitter) == (BaseBackoffMs * Pow2(a - 1) * jitter) \div 10

\* raise inside an except clause: no "from", so __cause__ stays None and the
\* caught exception becomes __context__
MaxRetriesError(e) == [type |-> "RecursionError", cause |-> NoCause, context |-> e]

CallerInit ==
    /\ max_retries \in 0..MaxRetriesBound
    /\ stubAlways \in BOOLEAN
    /\ stubFails \in 0..MaxStubFails
    /\ stubPayload \in Payloads
    /\ v_pc = "try"
    /\ attempt = 0
    /\ v_calls = 0
    /\ v_sleeps = <<>>
    /\ v_lastErr = NoCause
    /\ v_result = NoResult
    /\ v_raised = NoError

\* try body succeeds: responses.create returns, json.loads decodes, return
AttemptOk ==
    /\ v_pc = "try"
    /\ ~StubFailsAt(v_calls + 1)
    /\ v_calls' = v_calls + 1
    /\ v_result' = stubPayload
    /\ v_pc' = "returned"
    /\ UNCHANGED <<max_retries, stubFails, stubAlways, stubPayload, attempt,
                   v_sleeps, v_lastErr, v_raised>>
    /\ UNCHANGED <<genVars, normVars, textVars, judgeVars, valVars, mergeVars, botVars>>

\* try body raises, except clause: attempt += 1, then raise or go to sleep
AttemptFail ==
    /\ v_pc = "try"
    /\ StubFailsAt(v_calls + 1)
    /\ \E kind \in FailureKinds :
         LET e == AttemptError(kind, v_calls + 1) IN
           /\ v_calls' = v_calls + 1
           /\ attempt' = attempt + 1
           /\ v_lastErr' = e
           /\ IF RetriesExhausted(attempt + 1, max_retries)
                 THEN /\ v_raised' = MaxRetriesError(e)
                      /\ v_pc' = "raised"
                 ELSE /\ v_raised' = v_raised
                      /\ v_pc' = "sleep"
    /\ UNCHANGED <<max_retries, stubFails, stubAlways, stubPayload, v_sleeps,
                   v_result>>
    /\ UNCHANGED <<genVars, normVars, textVars, judgeVars, valVars, mergeVars, botVars>>

\* time.sleep(sleep_s) with the jittered exponential delay, then loop
BackoffSleep ==
    /\ v_pc = "sleep"
    /\ \E j \in JitterTenths : v_sleeps' = Append(v_sleeps, SleepMs(attempt, j))
    /\ v_pc' = "try"
    /\ UNCHANGED <<max_retries, stubFails, stubAlways, stubPayload, attempt,
                   v_calls, v_lastErr, v_result, v_raised>>
    /\ UNCHANGED <<genVars, normVars, textVars, judgeVars, valVars, mergeVars, botVars>>

CallerNext == AttemptOk \/ AttemptFail \/ BackoffSleep

----------------------------------------------------------------------------
(* TextNormalizer.normalize_to_bot_schema                                   *)

PosValues == {"noun", "verb", "adj", "adv", "other"}
Articles == {<<"d", "e", "r">>, <<"d", "i", "e">>, <<"d", "a", "s">>, None}

\* bounds of the coercion model
MaxWordLen == 2
MaxSentLen == 2
MaxFormLen == 4
WordAlphabet == {"a", "b"}
SentAlphabet == {"a", "b", " "}
FormAlphabet == {"<", ">", "a"}
Whitespace == {" "}

\* Python: w in s
IsSubstring(w, s) ==
    \E i \in 0..(Len(s) - Len(w)) : SubSeq(s, i + 1, i + Len(w)) = w

\* Python: s.startswith(p)
StartsWith(s, p) == Len(s) >= Len(p) /\ SubSeq(s, 1, Len(p)) = p

\* Python: s.rstrip()
RECURSIVE RStrip(_)
RStrip(s) ==
    IF s # <<>> /\ s[Len(s)] \in Whitespace
        THEN RStrip(SubSeq(s, 1, Len(s) - 1))
        ELSE s

\* the format "<article>Nominalization", as TextNormalizer.norm_article_form
\* recognises it: ^<([^>]+)>(.+)$
HasArticleFormat(s) ==
    /\ Len(s) >= 4
    /\ s[1] = "<"
    /\ \E i \in 3..(Len(s) - 1) :
         /\ s[i] = ">"
         /\ \A j \in 2..(i - 1) : s[j] # ">"

DiePrefix == <<"<", "d", "i", "e", ">">>

\* f" Heute will ich {word}."
FallbackClause(word) ==
    <<" ", "H", "e", "u", "t", "e", " ", "w", "i", "l", "l", " ", "i", "c", "h", " ">>
        \o word \o <<".">>

\* the dict out as first built: every field of the response but pos
BuildOut(entry) ==
    [word             |-> entry.word,
     explanation_de   |-> entry.explanation_de,
     translation_en   |-> entry.translation_en,
     example_sentence |-> entry.example_sentence,
     opposite         |-> entry.opposite,
     article          |-> entry.article,
     level            |-> entry.level,
     plural_form      |-> entry.plural_form,
     noun_form        |-> entry.noun_form,
     verb_form        |-> entry.verb_form]

\* if pos != "noun": article and plural_form become None
CoerceNounFields(pos, out) ==
    IF pos # "noun"
        THEN [out EXCEPT !.article = None, !.plural_form = None]
        ELSE out

CoerceForms_keepVerbForm(pos, out) ==
    IF pos = "verb"
        THEN IF IsStr(out.noun_form) /\ ~StartsWith(out.noun_form, <<"<">>)
                THEN [out EXCEPT !.noun_form = DiePrefix \o out.noun_form]
                ELSE out
        ELSE IF pos = "noun"
                THEN [out EXCEPT !.noun_form = None]
                ELSE [out EXCEPT !.noun_form = None, !.verb_form = None]

\* the if pos == "verb" / elif pos == "noun" / else chain
CoerceForms(pos, out) ==
    IF pos = "verb"
        THEN IF IsStr(out.noun_form) /\ ~StartsWith(out.noun_form, <<"<">>)
                THEN [out EXCEPT !.verb_form = None,
                                 !.noun_form = DiePrefix \o out.noun_form]
                ELSE [out EXCEPT !.verb_form = None]
        ELSE IF pos = "noun"
                THEN [out EXCEPT !.noun_form = None]
                ELSE [out EXCEPT !.noun_form = None, !.verb_form = None]

EnsureLemma_noLemma(out) ==
    IF ~IsSubstring(out.word, out.example_sentence)
        THEN [out EXCEPT !.example_sentence =
                  RStrip(out.example_sentence) \o FallbackClause(<<>>)]
        ELSE out

\* if out["word"] not in out["example_sentence"]: append the fallback clause
EnsureLemma(out) ==
    IF ~IsSubstring(out.word, out.example_sentence)
        THEN [out EXCEPT !.example_sentence =
                  RStrip(out.example_sentence) \o FallbackClause(out.word)]
        ELSE out

normalize_to_bot_schema(entry) ==
    LET pos == entry.pos IN
      EnsureLemma(CoerceForms(pos, CoerceNounFields(pos, BuildOut(entry))))

\* a schema-conformant response (DataGenerator.entry_schema): eleven fields,
\* pos in the enum, article in its enum, the nullable fields string or None
Response(pos, word, sent, art, plural, nf, vf) ==
    [word             |-> word,
     pos              |-> pos,
     explanation_de   |-> <<"x">>,
     translation_en   |-> <<"t">>,
     example_sentence |-> sent,
     opposite         |-> None,
     article          |-> art,
     level            |-> None,
     plural_form      |-> plural,
     noun_form        |-> nf,
     verb_form        |-> vf]

\* responses that vary the part-of-speech dependent fields
FormResponses ==
    {Response(pos, <<"a">>, <<"a">>, art, plural, nf, vf) :
        pos \in PosValues, art \in Articles, plural \in {None, <<"a", "s">>},
        nf \in StringsUpTo(FormAlphabet, MaxFormLen) \cup {None},
        vf \in {None, <<"a", "n">>}}

\* responses that vary the lemma and the example sentence
SentenceResponses ==
    {Response(pos, word, sent, None, None, nf, None) :
        pos \in PosValues, word \in StringsUpTo(WordAlphabet, MaxWordLen),
        sent \in StringsUpTo(SentAlphabet, MaxSentLen),
        nf \in {None, <<"a">>}}

ModelResponses == FormResponses \cup SentenceResponses

NoEntry == [word |-> None]

NormInit ==
    /\ n_pc = "ready"
    /\ n_in \in ModelResponses
    /\ n_out = NoEntry

Normalize ==
    /\ n_pc = "ready"
    /\ n_out' = normalize_to_bot_schema(n_in)
    /\ n_pc' = "done"
    /\ UNCHANGED n_in
    /\ UNCHANGED <<callerVars, genVars, textVars, judgeVars, valVars, mergeVars, botVars>>

NormNext == Normalize

----------------------------------------------------------------------------
(* DataGenerator.__call__                                                   *)

\* bounds of the batch model
MaxWords == 3
Lemmas == {<<"a">>, <<"b">>, <<"a", "b">>}

StrInput(w) == [kind |-> "str", str |-> w, list |-> <<>>]
ListInput(l) == [kind |-> "list", str |-> <<>>, list |-> l]

GenInputs ==
    {StrInput(w) : w \in Lemmas}
        \cup {ListInput(l) : l \in UNION {[1..k -> Lemmas] : k \in 0..MaxWords}}

\* if isinstance(words, str): words = [words]
WrapWords(input) == IF input.kind = "str" THEN <<input.str>> ELSE input.list

HasDuplicates_adjacentOnly(words) ==
    \E i \in 1..(Len(words) - 1) : words[i] = words[i + 1]

\* the negation of the asserted len(list(set(words))) == len(words)
HasDuplicates(words) ==
    Cardinality({words[i] : i \in DOMAIN words}) # Len(words)

\* what the model service may answer for lemma w
BatchResponses(w) ==
    {Response(pos, w, sent, None, None, nf, None) :
        pos \in {"noun", "verb"}, sent \in {w \o <<" ">>, <<"b", " ">>},
        nf \in {<<"a">>}}

NoFile == [exists |-> FALSE, data |-> <<>>]

\* the raise statement of call_openai_with_backoff's except clause: its
\* message reads cfg.max_retries, and cfg is bound only as a module global of
\* a __main__ run, to a GeneratorConfig, which has no max_retries field.
\* Building the message therefore raises, and that exception leaves the call
\* with the caught one as its __context__.
GenCallError(e) ==
    [type    |-> IF g_main THEN "AttributeError" ELSE "NameError",
     cause   |-> NoCause,
     context |-> e]

AssertionError == [type |-> "AssertionError", cause |-> NoCause, context |-> NoCause]

GenInit ==
    /\ g_input \in GenInputs
    /\ g_main \in BOOLEAN
    /\ g_pc = "start"
    /\ g_words = <<>>
    /\ g_i = 0
    /\ g_entries = <<>>
    /\ g_calls = 0
    /\ g_attempts = 0
    /\ g_cause = NoCause
    /\ g_raised = NoError
    /\ outFile = NoFile
    /\ g_writes = 0

\* entry of __call__: wrap a str, assert there are no duplicates
GenStart ==
    /\ g_pc = "start"
    /\ LET words == WrapWords(g_input) IN
         /\ g_words' = words
         /\ IF HasDuplicates(words)
               THEN /\ g_raised' = AssertionError
                    /\ g_pc' = "failed"
                    /\ UNCHANGED <<g_i, g_entries>>
               ELSE /\ g_pc' = "loop"
                    /\ g_i' = 1
                    /\ g_entries' = <<>>
                    /\ UNCHANGED g_raised
    /\ UNCHANGED <<g_input, g_main, g_calls, g_attempts, g_cause, outFile, g_writes>>
    /\ UNCHANGED <<callerVars, normVars, textVars, judgeVars, valVars, mergeVars, botVars>>

\* one loop iteration: call_openai_with_backoff returns, the response is
\* coerced and appended
GenLemmaOk ==
    /\ g_pc = "loop"
    /\ g_i <= Len(g_words)
    /\ \E data \in BatchResponses(g_words[g_i]) :
         g_entries' = Append(g_entries, normalize_to_bot_schema(data))
    /\ g_calls' = g_calls + 1
    /\ g_i' = g_i + 1
    /\ UNCHANGED <<g_input, g_main, g_pc, g_words, g_attempts, g_cause, g_raised,
                   outFile, g_writes>>
    /\ UNCHANGED <<callerVars, normVars, textVars, judgeVars, valVars, mergeVars, botVars>>

\* one loop iteration: responses.create or json.loads raises inside
\* call_openai_with_backoff; the except clause raises and __call__ ends
GenLemmaFail ==
    /\ g_pc = "loop"
    /\ g_i <= Len(g_words)
    /\ \E kind \in FailureKinds :
         LET e == AttemptError(kind, 1) IN
           /\ g_cause' = e
           /\ g_raised' = GenCallError(e)
    /\ g_calls' = g_calls + 1
    /\ g_attempts' = 1
    /\ g_pc' = "failed"
    /\ UNCHANGED <<g_input, g_main, g_words, g_i, g_entries, outFile, g_writes>>
    /\ UNCHANGED <<callerVars, normVars, textVars, judgeVars, valVars, mergeVars, botVars>>

GenWrite_everyLemma ==
    /\ g_pc = "loop"
    /\ g_i > 1
    /\ outFile' = [exists |-> TRUE, data |-> g_entries]
    /\ g_writes' = g_writes + 1
    /\ g_pc' = IF g_i > Len(g_words) THEN "done" ELSE g_pc
    /\ UNCHANGED <<g_input, g_main, g_words, g_i, g_entries, g_calls, g_attempts,
                   g_cause, g_raised>>
    /\ UNCHANGED <<callerVars, normVars, textVars, judgeVars, valVars, mergeVars, botVars>>

\* after the loop: write_json(entries)
GenWrite ==
    /\ g_pc = "loop"
    /\ g_i > Len(g_words)
    /\ outFile' = [exists |-> TRUE, data |-> g_entries]
    /\ g_writes' = g_writes + 1
    /\ g_pc' = "done"
    /\ UNCHANGED <<g_input, g_main, g_words, g_i, g_entries, g_calls, g_attempts,
                   g_cause, g_raised>>
    /\ UNCHANGED <<callerVars, normVars, textVars, judgeVars, valVars, mergeVars, botVars>>

GenNext == GenStart \/ GenLemmaOk \/ GenLemmaFail \/ GenWrite

----------------------------------------------------------------------------
(* TextNormalizer.norm_basic, norm_de_word, norm_de_reflexive_verb          *)

\* bound of the normaliser model
MaxTextLen == 4
TextAlphabet == {"a", "|", " "}

\* str.lower() on the letters of the model's alphabets
LowerChar(c) ==
    CASE c = "A" -> "a" [] c = "B" -> "b" [] c = "S" -> "s" [] c = "I" -> "i"
      [] c = "C" -> "c" [] c = "H" -> "h" [] OTHER -> c
Lower(s) == [i \in 1..Len(s) |-> LowerChar(s[i])]

\* Python: s.lstrip()
RECURSIVE LStrip(_)
LStrip(s) ==
    IF s # <<>> /\ s[1] \in Whitespace THEN LStrip(Tail(s)) ELSE s

\* Python: s.strip()
Strip(s) == LStrip(RStrip(s))

\* re.sub(r"\s+", " ", s): every run of whitespace becomes one space
RECURSIVE CollapseWhitespace(_)
CollapseWhitespace(s) ==
    IF s = <<>> THEN <<>>
    ELSE IF s[1] \in Whitespace
            THEN <<" ">> \o CollapseWhitespace(LStrip(s))
            ELSE <<s[1]>> \o CollapseWhitespace(Tail(s))

norm_basic(s) == CollapseWhitespace(Strip(s))

\* Python: s.replace("|", "")
WithoutPipes(s) == SelectSeq(s, LAMBDA c : c # "|")

norm_de_word_keepsMarks(w) == norm_basic(w)
\* norm_basic, then w.replace("|", "")
norm_de_word(w) == WithoutPipes(norm_basic(w))

\* the reflexive marker "sich " as it may be written
ReflexiveMarkers ==
    {<<"s", "i", "c", "h", " ">>, <<"S", "i", "c", "h", " ">>,
     <<"S", "I", "C", "H", " ">>}

\* re.match(r"^sich\s+", w): "sich" and at least one whitespace character
MatchesSich_caseSensitive(w) ==
    /\ Len(w) >= 5
    /\ SubSeq(w, 1, 4) = <<"s", "i", "c", "h">>
    /\ w[5] \in Whitespace

\* re.match(r"^sich\s+", w, flags=re.IGNORECASE)
MatchesSich(w) ==
    /\ Len(w) >= 5
    /\ Lower(SubSeq(w, 1, 4)) = <<"s", "i", "c", "h">>
    /\ w[5] \in Whitespace

\* norm_de_word, then re.sub(r"^sich\s+", "", v, flags=re.IGNORECASE)
norm_de_reflexive_verb(v) ==
    LET w == norm_de_word(v)
    IN  IF MatchesSich(w) THEN LStrip(SubSeq(w, 5, Len(w))) ELSE w

NoText == [norm_word |-> <<>>, norm_word_unmarked |-> <<>>]
NoCase == [field |-> "none"]
NoVerdict == [field |-> "none"]
NoSummary == [total |-> -1, failed |-> -1]
NoReturn == <<"no return">>
NoArgs == [db |-> <<>>, input |-> <<>>]
NoStats == [words_before |-> 0]

TextInit ==
    /\ t_pc = "ready"
    /\ t_in \in StringsUpTo(TextAlphabet, MaxTextLen)
    /\ t_out = NoText

\* norm_de_word applied to the string and to the string without its "|" marks
NormaliseText ==
    /\ t_pc = "ready"
    /\ t_out' = [norm_word          |-> norm_de_word(t_in),
                 norm_word_unmarked |-> norm_de_word(WithoutPipes(t_in))]
    /\ t_pc' = "done"
    /\ UNCHANGED t_in
    /\ UNCHANGED <<callerVars, genVars, normVars, judgeVars, valVars, mergeVars, botVars>>

\* norm_de_reflexive_verb applied to the string behind a reflexive marker (or
\* to the string alone), next to norm_de_word of the string
NormaliseReflexive ==
    /\ t_pc = "ready"
    /\ \E marker \in ReflexiveMarkers \cup {<<>>} :
         t_out' = [marker         |-> marker,
                   norm_word      |-> norm_de_word(t_in),
                   norm_reflexive |-> norm_de_reflexive_verb(marker \o t_in)]
    /\ t_pc' = "stripped"
    /\ UNCHANGED t_in
    /\ UNCHANGED <<callerVars, genVars, normVars, judgeVars, valVars, mergeVars, botVars>>

TextNext == NormaliseText \/ NormaliseReflexive

----------------------------------------------------------------------------
(* Validator.is_in_candidates, is_in_candidates_article_form and the       *)
(* judgements of Validator.validate_entry                                   *)

\* bound of the judgement model: the longest candidate list
MaxCands == 2
WordStrings == StringsUpTo({"a", "A", "|", " "}, 2)
WordCandidates == WordStrings
TranslationStrings == StringsUpTo({"a", "A", ",", " "}, 3)
TranslationCandidates == StringsUpTo({"a", "A", " "}, 2)
FormParts == {<<"a">>, <<"A">>, <<"a", "a">>, <<" ", "a">>}
NounFormStrings ==
    {<<"<">> \o art \o <<">">> \o noun : art \in FormParts, noun \in FormParts}
        \cup {<<"a">>, <<"<", "a">>, <<"<", "a", ">">>}

ListsUpTo(S, n) == UNION {[1..k -> S] : k \in 0..n}

\* index of the ">" that closes the article of a string of the format
\* ^<([^>]+)>(.+)$
ArticleEnd(s) == CHOOSE i \in 3..(Len(s) - 1) :
                    s[i] = ">" /\ \A j \in 2..(i - 1) : s[j] # ">"

\* m.group(1) and m.group(2)
ArticleOf(s) == SubSeq(s, 2, ArticleEnd(s) - 1)
NounOf(s) == SubSeq(s, ArticleEnd(s) + 1, Len(s))

norm_article_form_nounOnly(str) ==
    LET s == norm_basic(str) IN
      IF ~HasArticleFormat(s) THEN Lower(s) ELSE Lower(Strip(NounOf(s)))

norm_article_form(str) ==
    LET s == norm_basic(str) IN
      IF ~HasArticleFormat(s)
          THEN Lower(s)
          ELSE <<"<">> \o Lower(Strip(ArticleOf(s))) \o <<">">>
                   \o Lower(Strip(NounOf(s)))

is_in_candidates_caseSensitive(word, candidates) ==
    norm_de_word(word) \in {norm_de_word(candidates[i]) : i \in DOMAIN candidates}

is_in_candidates(word, candidates) ==
    LET w == Lower(norm_de_word(word))
        cset == {Lower(norm_de_word(candidates[i])) : i \in DOMAIN candidates}
    IN  w \in cset

is_in_candidates_article_form(noun_form, candidates) ==
    LET w == norm_article_form(noun_form)
        cset == {norm_article_form(candidates[i]) : i \in DOMAIN candidates}
    IN  w \in cset

\* Python: s.split(",")
RECURSIVE SplitCommas(_)
SplitCommas(s) ==
    IF \A i \in DOMAIN s : s[i] # ","
        THEN <<s>>
        ELSE LET k == CHOOSE i \in DOMAIN s :
                        s[i] = "," /\ \A j \in 1..(i - 1) : s[j] # ","
             IN  <<SubSeq(s, 1, k - 1)>> \o SplitCommas(SubSeq(s, k + 1, Len(s)))

translation_overlap_unsplit(translation_en, candidates) ==
    LET stored == <<Lower(Strip(translation_en))>>
        cand == [i \in DOMAIN candidates |-> Lower(Strip(candidates[i]))]
    IN  \E i \in DOMAIN stored : \E k \in DOMAIN cand : stored[i] = cand[k]

\* stored = [t.strip().lower() ...]; cand = [c.strip().lower() ...];
\* any(s in cand for s in stored)
translation_overlap(translation_en, candidates) ==
    LET parts == SplitCommas(translation_en)
        stored == [i \in DOMAIN parts |-> Lower(Strip(parts[i]))]
        cand == [i \in DOMAIN candidates |-> Lower(Strip(candidates[i]))]
    IN  \E i \in DOMAIN stored : \E k \in DOMAIN cand : stored[i] = cand[k]

\* the item validate_entry appends for a field, given the entry's word, the
\* field's stored value and the candidates the call returned
FieldVerdict(field, word, stored, candidates) ==
    [field      |-> field,
     pass       |-> CASE field = "explanation_de" -> is_in_candidates(word, candidates)
                      [] field = "translation_en" -> translation_overlap(stored, candidates)
                      [] field = "opposite" -> is_in_candidates(stored, candidates)
                      [] field = "noun_form" ->
                             is_in_candidates_article_form(stored, candidates),
     candidates |-> candidates]

JudgeCase(field, word, stored, candidates) ==
    [field |-> field, word |-> word, stored |-> stored, candidates |-> candidates]

JudgeInit ==
    /\ j_pc = "ready"
    /\ j_verdict = NoVerdict
    /\ \/ \E w \in WordStrings, cs \in ListsUpTo(WordCandidates, MaxCands) :
             j_case = JudgeCase("explanation_de", w, <<"a">>, cs)
       \/ \E w \in WordStrings \ {<<>>}, cs \in ListsUpTo(WordCandidates, 1) :
             j_case = JudgeCase("opposite", <<"a">>, w, cs)
       \/ \E t \in TranslationStrings \ {<<>>},
             cs \in ListsUpTo(TranslationCandidates, MaxCands) :
             j_case = JudgeCase("translation_en", <<"a">>, t, cs)
       \/ \E f \in NounFormStrings, cs \in ListsUpTo(NounFormStrings, 2) :
             j_case = JudgeCase("noun_form", <<"a">>, f, cs)

\* ok = ...; results.append({"field": ..., "pass": ok, "candidates": ...})
Judge ==
    /\ j_pc = "ready"
    /\ j_verdict' = FieldVerdict(j_case.field, j_case.word, j_case.stored,
                                 j_case.candidates)
    /\ j_pc' = "done"
    /\ UNCHANGED j_case
    /\ UNCHANGED <<callerVars, genVars, normVars, textVars, valVars, mergeVars, botVars>>

JudgeNext == Judge

----------------------------------------------------------------------------
(* Validator.validate_entry and validator.main                              *)

MaxEntries == 2

\* a key the entry dict does not have
Absent == <<"Absent">>

FieldOrder == <<"explanation_de", "translation_en", "example_sentence",
                "opposite", "noun_form">>
CheckedFields == {FieldOrder[k] : k \in DOMAIN FieldOrder}

Position(f) == CHOOSE k \in DOMAIN FieldOrder : FieldOrder[k] = f

\* the statement after the block of field f
FieldAfter(f) ==
    IF Position(f) = Len(FieldOrder) THEN "return" ELSE FieldOrder[Position(f) + 1]

\* entry.get(f) is truthy: the key exists and is neither null nor ""
Truthy(v) == v # Absent /\ v # None /\ v # <<>>

StoredValue(f) ==
    CASE f = "explanation_de" -> <<"a">>
      [] f = "translation_en" -> <<"a", ",", "A">>
      [] f = "example_sentence" -> <<"a", " ", "a">>
      [] f = "opposite" -> <<"A">>
      [] f = "noun_form" -> <<"<", "a", ">", "a">>

FieldValues(f) == {Absent, None, <<>>, StoredValue(f)}

Entry(ex, tr, se, op, nf) ==
    [word |-> <<"a">>, explanation_de |-> ex, translation_en |-> tr,
     example_sentence |-> se, opposite |-> op, noun_form |-> nf]

\* entries of the multi-entry batches: one with two checked fields, one with
\* the explanation only, one with nothing to check, one without explanation
BatchEntries ==
    {Entry(StoredValue("explanation_de"), StoredValue("translation_en"), Absent,
           Absent, Absent),
     Entry(StoredValue("explanation_de"), <<>>, Absent, None, Absent),
     Entry(<<>>, Absent, StoredValue("example_sentence"), Absent, Absent),
     Entry(Absent, StoredValue("translation_en"), Absent, Absent, Absent)}

\* data["candidates"] of a successful call
CandidateLists ==
    {<<>>, << <<"a">> >>, << <<"<", "a", ">", "a">>, <<"b">> >>}

\* entry[key] on a dict without that key
KeyError == [type |-> "KeyError", cause |-> NoCause, context |-> NoCause]

\* the fields read with entry[...] while the block of field f runs
SubscriptedBy(f) ==
    CASE f = "noun_form" -> {"noun_form", "example_sentence"}
      [] f = "translation_en" -> {"translation_en"}
      [] f = "opposite" -> {"opposite"}
      [] OTHER -> {}

RECURSIVE CountChecks(_)
CountChecks(report) ==
    IF report = <<>> THEN 0
    ELSE Len(report[1].results) + CountChecks(Tail(report))

RECURSIVE CountFailed(_)
CountFailed(report) ==
    IF report = <<>> THEN 0
    ELSE Cardinality({k \in DOMAIN report[1].results : ~report[1].results[k].pass})
             + CountFailed(Tail(report))

CurrentEntry == m_db[m_i]

ValInit ==
    /\ \/ \E ex \in FieldValues("explanation_de"), tr \in FieldValues("translation_en"),
             se \in FieldValues("example_sentence"), op \in FieldValues("opposite"),
             nf \in FieldValues("noun_form") :
             m_db = <<Entry(ex, tr, se, op, nf)>>
       \/ \E b \in ListsUpTo(BatchEntries, MaxEntries) : m_db = b
    /\ m_i = 1
    /\ m_pc = "next"
    /\ m_report = <<>>
    /\ reportFile = NoFile
    /\ m_summary = NoSummary
    /\ e_pc = "returned"
    /\ e_results = <<>>
    /\ e_called = {}
    /\ e_exhaustedAt = "none"
    /\ e_raised = NoError
    /\ e_ret = NoReturn
    /\ e_attempts = 0

\* for entry in db: validator.validate_entry(config, entry); results = []
MainCallValidate ==
    /\ m_pc = "next"
    /\ m_i <= Len(m_db)
    /\ m_pc' = "validating"
    /\ e_pc' = "prompt"
    /\ e_results' = <<>>
    /\ e_called' = {}
    /\ e_ret' = NoReturn
    /\ e_attempts' = 0
    /\ UNCHANGED <<m_db, m_i, m_report, reportFile, m_summary, e_exhaustedAt, e_raised>>
    /\ UNCHANGED <<callerVars, genVars, normVars, textVars, judgeVars, mergeVars, botVars>>

\* input_text = ...(definition_de=entry["explanation_de"], ...).format_prompt()
ValBuildPrompt ==
    /\ m_pc = "validating"
    /\ e_pc = "prompt"
    /\ CurrentEntry.explanation_de # Absent
    /\ e_pc' = "explanation_de"
    /\ UNCHANGED <<m_db, m_i, m_pc, m_report, reportFile, m_summary, e_results,
                   e_called, e_exhaustedAt, e_raised, e_ret, e_attempts>>
    /\ UNCHANGED <<callerVars, genVars, normVars, textVars, judgeVars, mergeVars, botVars>>

\* entry["explanation_de"] on an entry without that key
ValPromptKeyError ==
    /\ m_pc = "validating"
    /\ e_pc = "prompt"
    /\ CurrentEntry.explanation_de = Absent
    /\ e_pc' = "raised"
    /\ e_raised' = KeyError
    /\ UNCHANGED <<m_db, m_i, m_pc, m_report, reportFile, m_summary, e_results,
                   e_called, e_exhaustedAt, e_ret, e_attempts>>
    /\ UNCHANGED <<callerVars, genVars, normVars, textVars, judgeVars, mergeVars, botVars>>

\* if entry.get(f): is false
ValSkipField ==
    /\ m_pc = "validating"
    /\ e_pc \in CheckedFields
    /\ ~Truthy(CurrentEntry[e_pc])
    /\ e_pc' = FieldAfter(e_pc)
    /\ UNCHANGED <<m_db, m_i, m_pc, m_report, reportFile, m_summary, e_results,
                   e_called, e_exhaustedAt, e_raised, e_ret, e_attempts>>
    /\ UNCHANGED <<callerVars, genVars, normVars, textVars, judgeVars, mergeVars, botVars>>

\* if entry.get("example_sentence"): ok = True; if False: ... (never runs)
ValExampleSentence ==
    /\ m_pc = "validating"
    /\ e_pc = "example_sentence"
    /\ Truthy(CurrentEntry.example_sentence)
    /\ e_pc' = FieldAfter("example_sentence")
    /\ UNCHANGED <<m_db, m_i, m_pc, m_report, reportFile, m_summary, e_results,
                   e_called, e_exhaustedAt, e_raised, e_ret, e_attempts>>
    /\ UNCHANGED <<callerVars, genVars, normVars, textVars, judgeVars, mergeVars, botVars>>

\* the block of field f calls the model: f is truthy, not the example
\* sentence, and every entry[...] of the block finds its key
CallsModel(f) ==
    /\ f \in CheckedFields \ {"example_sentence"}
    /\ Truthy(CurrentEntry[f])
    /\ \A k \in SubscriptedBy(f) : CurrentEntry[k] # Absent

\* the noun_form block builds its prompt from entry["example_sentence"]
ValFieldKeyError ==
    /\ m_pc = "validating"
    /\ e_pc \in CheckedFields \ {"example_sentence"}
    /\ Truthy(CurrentEntry[e_pc])
    /\ \E k \in SubscriptedBy(e_pc) :
         /\ CurrentEntry[k] = Absent
         /\ e_raised' = KeyError
    /\ e_pc' = "raised"
    /\ UNCHANGED <<m_db, m_i, m_pc, m_report, reportFile, m_summary, e_results,
                   e_called, e_exhaustedAt, e_ret, e_attempts>>
    /\ UNCHANGED <<callerVars, genVars, normVars, textVars, judgeVars, mergeVars, botVars>>

\* data = self.call_responses_with_backoff(...) returns after n failed
\* attempts; ok = ...; results.append({...})
ValCallOk ==
    /\ m_pc = "validating"
    /\ CallsModel(e_pc)
    /\ \E n \in 0..DefaultMaxRetries, cs \in CandidateLists :
         /\ ~RetriesExhausted(n, DefaultMaxRetries)
         /\ e_attempts' = n + 1
         /\ e_results' = Append(e_results,
                FieldVerdict(e_pc, CurrentEntry.word, CurrentEntry[e_pc], cs))
    /\ e_called' = e_called \cup {e_pc}
    /\ e_pc' = FieldAfter(e_pc)
    /\ UNCHANGED <<m_db, m_i, m_pc, m_report, reportFile, m_summary,
                   e_exhaustedAt, e_raised, e_ret>>
    /\ UNCHANGED <<callerVars, genVars, normVars, textVars, judgeVars, mergeVars, botVars>>

\* a handler that would catch the call's error and go on with the next field
ValCallExhausted_skipField ==
    /\ m_pc = "validating"
    /\ CallsModel(e_pc)
    /\ e_attempts' = DefaultMaxRetries + 1
    /\ e_called' = e_called \cup {e_pc}
    /\ e_exhaustedAt' = e_pc
    /\ e_pc' = FieldAfter(e_pc)
    /\ UNCHANGED <<m_db, m_i, m_pc, m_report, reportFile, m_summary, e_results,
                   e_raised, e_ret>>
    /\ UNCHANGED <<callerVars, genVars, normVars, textVars, judgeVars, mergeVars, botVars>>

\* every attempt of call_responses_with_backoff fails: it raises
\* RecursionError, which nothing in validate_entry catches
ValCallExhausted ==
    /\ m_pc = "validating"
    /\ CallsModel(e_pc)
    /\ \E kind \in FailureKinds :
         e_raised' = MaxRetriesError(AttemptError(kind, DefaultMaxRetries + 1))
    /\ RetriesExhausted(DefaultMaxRetries + 1, DefaultMaxRetries)
    /\ e_attempts' = DefaultMaxRetries + 1
    /\ e_called' = e_called \cup {e_pc}
    /\ e_exhaustedAt' = e_pc
    /\ e_pc' = "raised"
    /\ UNCHANGED <<m_db, m_i, m_pc, m_report, reportFile, m_summary, e_results,
                   e_ret>>
    /\ UNCHANGED <<callerVars, genVars, normVars, textVars, judgeVars, mergeVars, botVars>>

\* return results
ValReturn ==
    /\ m_pc = "validating"
    /\ e_pc = "return"
    /\ e_ret' = e_results
    /\ e_pc' = "returned"
    /\ UNCHANGED <<m_db, m_i, m_pc, m_report, reportFile, m_summary, e_results,
                   e_called, e_exhaustedAt, e_raised, e_attempts>>
    /\ UNCHANGED <<callerVars, genVars, normVars, textVars, judgeVars, mergeVars, botVars>>

\* if entry_results: report.append({"word": ..., "results": entry_results})
MainCollect ==
    /\ m_pc = "validating"
    /\ e_pc = "returned"
    /\ m_report' = IF e_ret # <<>>
                      THEN Append(m_report, [word |-> CurrentEntry.word,
                                             results |-> e_ret])
                      ELSE m_report
    /\ m_i' = m_i + 1
    /\ m_pc' = "next"
    /\ UNCHANGED <<m_db, reportFile, m_summary, e_pc, e_results, e_called,
                   e_exhaustedAt, e_raised, e_ret, e_attempts>>
    /\ UNCHANGED <<callerVars, genVars, normVars, textVars, judgeVars, mergeVars, botVars>>

\* main has no try/except: an exception of validate_entry ends the run
MainAbort ==
    /\ m_pc = "validating"
    /\ e_pc = "raised"
    /\ m_pc' = "aborted"
    /\ UNCHANGED <<m_db, m_i, m_report, reportFile, m_summary, e_pc, e_results,
                   e_called, e_exhaustedAt, e_raised, e_ret, e_attempts>>
    /\ UNCHANGED <<callerVars, genVars, normVars, textVars, judgeVars, mergeVars, botVars>>

\* json.dump(report, f); print(f"Checks: {total}, failed: {failed}")
MainWrite ==
    /\ m_pc = "next"
    /\ m_i > Len(m_db)
    /\ reportFile' = [exists |-> TRUE, data |-> m_report]
    /\ m_summary' = [total |-> CountChecks(m_report), failed |-> CountFailed(m_report)]
    /\ m_pc' = "written"
    /\ UNCHANGED <<m_db, m_i, m_report, e_pc, e_results, e_called, e_exhaustedAt,
                   e_raised, e_ret, e_attempts>>
    /\ UNCHANGED <<callerVars, genVars, normVars, textVars, judgeVars, mergeVars, botVars>>

ValNext ==
    \/ MainCallValidate
    \/ ValBuildPrompt
    \/ ValPromptKeyError
    \/ ValSkipField
    \/ ValExampleSentence
    \/ ValFieldKeyError
    \/ ValCallOk
    \/ ValCallExhausted
    \/ ValReturn
    \/ MainCollect
    \/ MainAbort
    \/ MainWrite

----------------------------------------------------------------------------
(* update_database                                                          *)

MaxDbLen == 2
MaxInputLen == 2

Fields == {"word", "opposite", "level"}

\* a JSON object over Fields; a field given as Absent is a key it lacks
Rec(w, o, l) ==
    LET full == [word |-> w, opposite |-> o, level |-> l]
    IN  [f \in {g \in Fields : full[g] # Absent} |-> full[f]]

\* dict.get(f): None for a missing key
Get(r, f) == IF f \in DOMAIN r THEN r[f] ELSE None

\* records of the database file: two with the word "a", one with "b", one
\* without a word
DbRecords ==
    {Rec(<<"a">>, <<"p">>, <<"x">>),
     Rec(<<"a">>, None, Absent),
     Rec(<<"b">>, Absent, <<"x">>),
     Rec(Absent, <<"p">>, Absent)}

\* records of the input file: for the stored words "a" and "b", for the new
\* word "c" (twice), and with an empty, a null and a missing word
InRecords ==
    {Rec(<<"a">>, <<"q">>, None),
     Rec(<<"a">>, <<"p">>, <<"x">>),
     Rec(<<"a">>, None, Absent),
     Rec(<<"b">>, <<"q">>, <<"x">>),
     Rec(<<"c">>, None, <<"x">>),
     Rec(<<"c">>, <<"p">>, Absent),
     Rec(<<>>, <<"p">>, <<"x">>),
     Rec(None, <<"q">>, Absent),
     Rec(Absent, <<"p">>, <<"x">>)}

\* the input file: missing, a JSON array, or a single JSON object
NoInput == [kind |-> "missing", items |-> <<>>]
ArrayInput(rs) == [kind |-> "list", items |-> rs]
ObjectInput(r) == [kind |-> "dict", items |-> <<r>>]

IndexMap_ignoringStored(db) == <<>>

\* {item.get('word'): i for i, item in enumerate(db_data) if item.get('word')}
\* (indices 1-based here); a later record with the same word wins
IndexMap(db) ==
    [w \in {Get(db[k], "word") : k \in {j \in DOMAIN db : Truthy(Get(db[j], "word"))}}
        |-> CHOOSE k \in DOMAIN db :
              /\ Get(db[k], "word") = w
              /\ \A j \in DOMAIN db : Get(db[j], "word") = w => j <= k]

InitialStats(db) ==
    [words_before |-> Len(db), words_added |-> 0, words_updated |-> 0,
     field_updates |-> <<>>]

ChangedFields_alsoNull(existing, entry) ==
    {f \in DOMAIN entry \ {"word"} : Get(existing, f) # entry[f]}

\* the fields the inner loop overwrites: not 'word', new_value is not None,
\* existing_entry.get(field) != new_value
ChangedFields(existing, entry) ==
    {f \in DOMAIN entry \ {"word"} :
        entry[f] # None /\ Get(existing, f) # entry[f]}

\* existing_entry after existing_entry[field] = new_value for those fields
Overwrite(existing, entry, changed) ==
    [f \in DOMAIN existing \cup changed |->
        IF f \in changed THEN entry[f] ELSE existing[f]]

\* stats["field_updates"][field] = stats["field_updates"].get(field, 0) + 1
CountFieldUpdates(fu, changed) ==
    [f \in DOMAIN fu \cup changed |->
        (IF f \in DOMAIN fu THEN fu[f] ELSE 0) + (IF f \in changed THEN 1 ELSE 0)]

RegisterKey_forgotten(map, word_key, idx) == map

\* db_index_map[word_key] = len(db_data) - 1
RegisterKey(map, word_key, idx) ==
    [w \in DOMAIN map \cup {word_key} |-> IF w = word_key THEN idx ELSE map[w]]

MergeInit ==
    /\ \E db \in ListsUpTo(DbRecords, MaxDbLen), hasDb \in BOOLEAN :
         /\ hasDb \/ db = <<>>
         /\ dbFile = [exists |-> hasDb, data |-> db]
         /\ \/ \E rs \in ListsUpTo(InRecords, MaxInputLen) :
                 u_args = [db |-> dbFile, input |-> ArrayInput(rs)]
            \/ \E r \in InRecords : u_args = [db |-> dbFile, input |-> ObjectInput(r)]
            \/ u_args = [db |-> dbFile, input |-> NoInput]
    /\ u_pc = "load"
    /\ u_db = <<>>
    /\ u_input = <<>>
    /\ u_i = 1
    /\ u_map = <<>>
    /\ u_stats = NoStats
    /\ u_run = 1
    /\ u_first = NoFile

\* steps 1 and 2, the index map and the counters
MergeLoad ==
    /\ u_pc = "load"
    /\ u_args.input.kind # "missing"
    /\ LET db == IF dbFile.exists THEN dbFile.data ELSE <<>> IN
         /\ u_db' = db
         /\ u_map' = IndexMap(db)
         /\ u_stats' = InitialStats(db)
    /\ u_input' = u_args.input.items
    /\ u_i' = 1
    /\ u_pc' = "loop"
    /\ UNCHANGED <<u_args, dbFile, u_run, u_first>>
    /\ UNCHANGED <<callerVars, genVars, normVars, textVars, judgeVars, valVars, botVars>>

\* the input file does not exist (or is not JSON): sys.exit(1)
MergeExit ==
    /\ u_pc = "load"
    /\ u_args.input.kind = "missing"
    /\ u_pc' = "exit"
    /\ UNCHANGED <<u_args, u_db, u_input, u_i, u_map, u_stats, dbFile, u_run, u_first>>
    /\ UNCHANGED <<callerVars, genVars, normVars, textVars, judgeVars, valVars, botVars>>

\* if not word_key: continue
MergeSkipEntry ==
    /\ u_pc = "loop"
    /\ u_i <= Len(u_input)
    /\ ~Truthy(Get(u_input[u_i], "word"))
    /\ u_i' = u_i + 1
    /\ UNCHANGED <<u_pc, u_args, u_db, u_input, u_map, u_stats, dbFile, u_run, u_first>>
    /\ UNCHANGED <<callerVars, genVars, normVars, textVars, judgeVars, valVars, botVars>>

\* if word_key in db_index_map: overwrite the differing non-null fields
MergeUpdateEntry ==
    /\ u_pc = "loop"
    /\ u_i <= Len(u_input)
    /\ LET entry == u_input[u_i]
           word_key == Get(entry, "word")
       IN  /\ Truthy(word_key)
           /\ word_key \in DOMAIN u_map
           /\ LET idx == u_map[word_key]
                  changed == ChangedFields(u_db[idx], entry)
              IN  /\ u_db' = [u_db EXCEPT ![idx] = Overwrite(@, entry, changed)]
                  /\ u_stats' = [u_stats EXCEPT
                        !.field_updates = CountFieldUpdates(@, changed),
                        !.words_updated = IF changed # {} THEN @ + 1 ELSE @]
    /\ u_i' = u_i + 1
    /\ UNCHANGED <<u_pc, u_args, u_input, u_map, dbFile, u_run, u_first>>
    /\ UNCHANGED <<callerVars, genVars, normVars, textVars, judgeVars, valVars, botVars>>

\* else: db_data.append(entry); db_index_map[word_key] = len(db_data) - 1
MergeAddEntry ==
    /\ u_pc = "loop"
    /\ u_i <= Len(u_input)
    /\ LET entry == u_input[u_i]
           word_key == Get(entry, "word")
       IN  /\ Truthy(word_key)
           /\ word_key \notin DOMAIN u_map
           /\ u_db' = Append(u_db, entry)
           /\ u_map' = RegisterKey(u_map, word_key, Len(u_db) + 1)
    /\ u_stats' = [u_stats EXCEPT !.words_added = @ + 1]
    /\ u_i' = u_i + 1
    /\ UNCHANGED <<u_pc, u_args, u_input, dbFile, u_run, u_first>>
    /\ UNCHANGED <<callerVars, genVars, normVars, textVars, judgeVars, valVars, botVars>>

\* json.dump(db_data, f, ...)
MergeSave ==
    /\ u_pc = "loop"
    /\ u_i > Len(u_input)
    /\ dbFile' = [exists |-> TRUE, data |-> u_db]
    /\ u_pc' = "done"
    /\ UNCHANGED <<u_args, u_db, u_input, u_i, u_map, u_stats, u_run, u_first>>
    /\ UNCHANGED <<callerVars, genVars, normVars, textVars, judgeVars, valVars, botVars>>

\* update_database is called again with the same input file and the database
\* file the first run has written
MergeRunAgain ==
    /\ u_pc = "done"
    /\ u_run = 1
    /\ u_run' = 2
    /\ u_first' = dbFile
    /\ u_args' = [u_args EXCEPT !.db = dbFile]
    /\ u_pc' = "load"
    /\ u_db' = <<>>
    /\ u_input' = <<>>
    /\ u_i' = 1
    /\ u_map' = <<>>
    /\ u_stats' = NoStats
    /\ UNCHANGED dbFile
    /\ UNCHANGED <<callerVars, genVars, normVars, textVars, judgeVars, valVars, botVars>>

MergeNext ==
    \/ MergeRunAgain
    \/ MergeLoad
    \/ MergeExit
    \/ MergeSkipEntry
    \/ MergeUpdateEntry
    \/ MergeAddEntry
    \/ MergeSave

----------------------------------------------------------------------------
(* bot.py: generate_exercise, cmd_hint, check_answer                        *)

\* bound of the session model: the longest database
MaxBotDb == 4

\* while len(distractors) < 3 and attempts < 50; if len(WORDS_DB) < 4
MaxDistractors == 3
MaxHintAttempts == 50
MinHintDb == 4

\* an entry of database/db.json, with the fields the three handlers read
BotEntry(word, translation_en, article, example_sentence, plural_form, noun_form, verb_form) ==
    [word |-> word, translation_en |-> translation_en, article |-> article,
     example_sentence |-> example_sentence, plural_form |-> plural_form,
     noun_form |-> noun_form, verb_form |-> verb_form]

\* a noun with two translations, a verb whose sentence lacks the lemma, an
\* adjective, a noun that differs from the first in case only, an adverb
Catalogue ==
    <<BotEntry(<<"n">>, <<"a", ",", " ", "b">>, <<"d">>, <<"n", " ", "x">>,
               <<"n", "s">>, None, <<"v">>),
      BotEntry(<<"v">>, <<"a">>, None, <<"x">>, None, <<"<", "d", ">", "n">>, None),
      BotEntry(<<"j">>, <<"B">>, None, <<"j">>, None, None, None),
      BotEntry(<<"N">>, <<"c">>, <<"d">>, <<"N">>, <<>>, None, None),
      BotEntry(<<"w">>, <<"w">>, None, <<"w">>, None, None, None),
      BotEntry(<<"k">>, <<"k">>, None, <<"k">>, None, None, None)>>

\* the databases of the model: runs of the catalogue, and databases that
\* repeat one entry
Databases ==
    {SubSeq(Catalogue, p[1], p[2]) :
        p \in {q \in (DOMAIN Catalogue) \X (DOMAIN Catalogue) :
                  q[1] <= q[2] /\ q[2] - q[1] < MaxBotDb}}
    \cup {[k \in 1..n |-> Catalogue[i]] : i \in {2, 3}, n \in 2..MaxBotDb}

\* the text of the user's message
TextInputs == {<<"a">>, <<" ", "B">>, <<"n">>, <<"x">>}

\* exercise_types of cmd_next: 1..5, 6 with a noun_form, 7 with a verb_form,
\* 8 when `not word_data.get('plural_form')`
RandomTypes(e) ==
    (1..5) \cup (IF Truthy(e.noun_form) THEN {6} ELSE {})
           \cup (IF Truthy(e.verb_form) THEN {7} ELSE {})
           \cup (IF ~Truthy(e.plural_form) THEN {8} ELSE {})

WithArticle(e) ==
    IF Truthy(e.article) THEN e.article \o <<" ">> \o e.word ELSE e.word

\* the exercise type that is stored: 3 becomes 4 when the word is not in the
\* sentence
StoredType(e, t) ==
    IF t = 3 /\ ~IsSubstring(e.word, e.example_sentence) THEN 4 ELSE t

\* correct_answer at the end of generate_exercise
ExerciseAnswer(e, t) ==
    CASE t = 1 -> e.translation_en
      [] t = 2 -> WithArticle(e)
      [] t \in {3, 4, 5, 6} -> e.word
      [] t = 8 -> e.plural_form
      [] OTHER -> <<>>

\* what a handler found in user_data
Session ==
    [active |-> active_exercise, answer |-> current_answer, type |-> exercise_type]

\* the record of a handled update: its command ("text" for a text message),
\* the session its handler found, the replies it sent, the exception that
\* ended it, for a text message the judgement, and for a hint the options of
\* the reply and the distractors among them
Event(kind, replies, raised, judged) ==
    [kind |-> kind, before |-> Session, replies |-> replies, raised |-> raised,
     judged |-> judged, options |-> <<>>, wrong |-> <<>>]

NoEvent ==
    [kind |-> "none", before |-> [active |-> FALSE, answer |-> Absent, type |-> 0],
     replies |-> 0, raised |-> "none", judged |-> "no", options |-> <<>>,
     wrong |-> <<>>]

\* the command of each CommandHandler that calls generate_exercise
TypedCommands ==
    <<"/next_g2e", "/next_e2g", "/next_sentence", "/next_d2g", "/next_o2g">>

\* candidate of cmd_hint for the entry drawn
HintCandidate(e, t) ==
    CASE t = 1 -> Strip(SplitCommas(e.translation_en)[1])
      [] t = 2 -> WithArticle(e)
      [] t \in {3, 4, 5} -> e.word
      [] OTHER -> <<>>

\* candidate and candidate.lower() != correct_answer.lower()
\*           and candidate not in distractors
HintAccepts(candidate, answer, ds) ==
    /\ candidate # <<>>
    /\ Lower(candidate) # Lower(answer)
    /\ \A k \in DOMAIN ds : ds[k] # candidate

\* correct_answer.split(',')[0].strip() if exercise_type == 1 else correct_answer
ShownAnswer(answer, t) ==
    IF t = 1 THEN Strip(SplitCommas(answer)[1]) ELSE answer

\* random.shuffle(options)
Shuffles(options) ==
    {[k \in DOMAIN options |-> options[f[k]]] :
        f \in {g \in [DOMAIN options -> DOMAIN options] :
                  \A a, b \in DOMAIN options : g[a] = g[b] => a = b}}

\* is_correct of check_answer for a stored answer that is a string
IsCorrect(user_input, answer, t) ==
    IF t = 1
        THEN LET parts == SplitCommas(answer)
             IN  \E k \in DOMAIN parts :
                    Lower(Strip(parts[k])) = Lower(Strip(user_input))
        ELSE Lower(Strip(user_input)) = Lower(answer)

BotInit ==
    /\ WORDS_DB \in Databases
    /\ active_exercise = FALSE
    /\ current_answer = Absent
    /\ exercise_type = 0
    /\ b_pc = "idle"
    /\ attempts = 0
    /\ distractors = <<>>
    /\ b_event = NoEvent

\* the tail of generate_exercise for entry e and type t: store the answer,
\* the type and the flag, reply with the question
StoreExercise(command, e, t) ==
    /\ current_answer' = ExerciseAnswer(e, StoredType(e, t))
    /\ exercise_type' = StoredType(e, t)
    /\ active_exercise' = TRUE
    /\ b_event' = Event(command, 1, "none", "no")

\* /next: generate_exercise(exercise_type=None)
CmdNext ==
    /\ b_pc = "idle"
    /\ \E k \in DOMAIN WORDS_DB : \E t \in RandomTypes(WORDS_DB[k]) :
         StoreExercise("/next", WORDS_DB[k], t)
    /\ UNCHANGED <<WORDS_DB, b_pc, attempts, distractors>>
    /\ UNCHANGED <<callerVars, genVars, normVars, textVars, judgeVars, valVars, mergeVars>>

\* /next_g2e, /next_e2g, /next_sentence, /next_d2g, /next_o2g:
\* generate_exercise(exercise_type=1..5)
CmdNextTyped ==
    /\ b_pc = "idle"
    /\ \E k \in DOMAIN WORDS_DB : \E t \in DOMAIN TypedCommands :
         StoreExercise(TypedCommands[t], WORDS_DB[k], t)
    /\ UNCHANGED <<WORDS_DB, b_pc, attempts, distractors>>
    /\ UNCHANGED <<callerVars, genVars, normVars, textVars, judgeVars, valVars, mergeVars>>

\* /hint without an active exercise or with fewer than 4 entries: one reply
CmdHintRefused ==
    /\ b_pc = "idle"
    /\ ~active_exercise \/ Len(WORDS_DB) < MinHintDb
    /\ b_event' = Event("/hint refused", 1, "none", "no")
    /\ UNCHANGED <<WORDS_DB, active_exercise, current_answer, exercise_type, b_pc,
                   attempts, distractors>>
    /\ UNCHANGED <<callerVars, genVars, normVars, textVars, judgeVars, valVars, mergeVars>>

\* /hint: distractors = []; attempts = 0
CmdHintStart ==
    /\ b_pc = "idle"
    /\ active_exercise
    /\ Len(WORDS_DB) >= MinHintDb
    /\ b_pc' = "hint"
    /\ attempts' = 0
    /\ distractors' = <<>>
    /\ b_event' = Event("/hint", 0, "none", "no")
    /\ UNCHANGED <<WORDS_DB, active_exercise, current_answer, exercise_type>>
    /\ UNCHANGED <<callerVars, genVars, normVars, textVars, judgeVars, valVars, mergeVars>>

\* one pass of the while loop: draw an entry, format the candidate, keep it
\* if it is accepted; correct_answer.lower() raises for a null answer
CmdHintDraw ==
    /\ b_pc = "hint"
    /\ Len(distractors) < MaxDistractors
    /\ attempts < MaxHintAttempts
    /\ \E k \in DOMAIN WORDS_DB :
         LET candidate == HintCandidate(WORDS_DB[k], exercise_type) IN
           IF candidate # <<>> /\ current_answer \in {None, Absent}
              THEN /\ b_event' = [b_event EXCEPT !.raised = "AttributeError"]
                   /\ b_pc' = "idle"
                   /\ attempts' = 0
                   /\ distractors' = <<>>
              ELSE /\ attempts' = attempts + 1
                   /\ distractors' =
                         IF HintAccepts(candidate, current_answer, distractors)
                            THEN Append(distractors, candidate)
                            ELSE distractors
                   /\ UNCHANGED <<b_pc, b_event>>
    /\ UNCHANGED <<WORDS_DB, active_exercise, current_answer, exercise_type>>
    /\ UNCHANGED <<callerVars, genVars, normVars, textVars, judgeVars, valVars, mergeVars>>

\* after the loop: options = distractors + [answer]; shuffle; reply
CmdHintReply ==
    /\ b_pc = "hint"
    /\ ~(Len(distractors) < MaxDistractors /\ attempts < MaxHintAttempts)
    /\ \E options \in Shuffles(Append(distractors,
                                      ShownAnswer(current_answer, exercise_type))) :
         b_event' = [b_event EXCEPT !.replies = 1, !.options = options,
                                    !.wrong = distractors]
    /\ b_pc' = "idle"
    /\ attempts' = 0
    /\ distractors' = <<>>
    /\ UNCHANGED <<WORDS_DB, active_exercise, current_answer, exercise_type>>
    /\ UNCHANGED <<callerVars, genVars, normVars, textVars, judgeVars, valVars, mergeVars>>

\* a text message: check_answer
TextMessage ==
    /\ b_pc = "idle"
    /\ \E user_input \in TextInputs :
         IF ~active_exercise
            THEN \* return
                 /\ b_event' = Event("text", 0, "none", "no")
                 /\ UNCHANGED <<active_exercise, current_answer>>
            ELSE IF current_answer = None
            THEN \* correct_answer_raw.split / .lower() on None
                 /\ b_event' = Event("text", 0, "AttributeError", "no")
                 /\ UNCHANGED <<active_exercise, current_answer>>
            ELSE \* either branch clears the exercise and replies
                 /\ b_event' =
                       Event("text", 1, "none",
                             IF IsCorrect(user_input, current_answer, exercise_type)
                                THEN "right" ELSE "wrong")
                 /\ active_exercise' = FALSE
                 /\ current_answer' = None
    /\ UNCHANGED <<WORDS_DB, exercise_type, b_pc, attempts, distractors>>
    /\ UNCHANGED <<callerVars, genVars, normVars, textVars, judgeVars, valVars, mergeVars>>

BotNext ==
    \/ CmdNext
    \/ CmdNextTyped
    \/ CmdHintRefused
    \/ CmdHintStart
    \/ CmdHintDraw
    \/ CmdHintReply
    \/ TextMessage

----------------------------------------------------------------------------
(* Specifications: one per component, the other components at rest          *)

CallerAtRest ==
    /\ max_retries = DefaultMaxRetries
    /\ stubAlways = FALSE
    /\ stubFails = 0
    /\ stubPayload = "p1"
    /\ v_pc = "returned"
    /\ attempt = 0
    /\ v_calls = 0
    /\ v_sleeps = <<>>
    /\ v_lastErr = NoCause
    /\ v_result = NoResult
    /\ v_raised = NoError

GenAtRest ==
    /\ g_input = ListInput(<<>>)
    /\ g_main = FALSE
    /\ g_pc = "done"
    /\ g_words = <<>>
    /\ g_i = 0
    /\ g_entries = <<>>
    /\ g_calls = 0
    /\ g_attempts = 0
    /\ g_cause = NoCause
    /\ g_raised = NoError
    /\ outFile = NoFile
    /\ g_writes = 0

NormAtRest ==
    /\ n_pc = "done"
    /\ n_in = NoEntry
    /\ n_out = NoEntry

TextAtRest ==
    /\ t_pc = "done"
    /\ t_in = <<>>
    /\ t_out = NoText

JudgeAtRest ==
    /\ j_pc = "done"
    /\ j_case = NoCase
    /\ j_verdict = NoVerdict

ValAtRest ==
    /\ m_db = <<>>
    /\ m_i = 1
    /\ m_pc = "written"
    /\ m_report = <<>>
    /\ reportFile = NoFile
    /\ m_summary = NoSummary
    /\ e_pc = "returned"
    /\ e_results = <<>>
    /\ e_called = {}
    /\ e_exhaustedAt = "none"
    /\ e_raised = NoError
    /\ e_ret = NoReturn
    /\ e_attempts = 0

MergeAtRest ==
    /\ u_pc = "done"
    /\ u_args = NoArgs
    /\ u_db = <<>>
    /\ u_input = <<>>
    /\ u_i = 1
    /\ u_map = <<>>
    /\ u_stats = NoStats
    /\ dbFile = NoFile
    /\ u_run = 1
    /\ u_first = NoFile

BotAtRest ==
    /\ WORDS_DB = <<>>
    /\ active_exercise = FALSE
    /\ current_answer = Absent
    /\ exercise_type = 0
    /\ b_pc = "idle"
    /\ attempts = 0
    /\ distractors = <<>>
    /\ b_event = NoEvent

InitCaller ==
    CallerInit /\ GenAtRest /\ NormAtRest /\ TextAtRest /\ JudgeAtRest /\ ValAtRest
        /\ MergeAtRest /\ BotAtRest
InitGen ==
    GenInit /\ CallerAtRest /\ NormAtRest /\ TextAtRest /\ JudgeAtRest /\ ValAtRest
        /\ MergeAtRest /\ BotAtRest
InitNorm ==
    NormInit /\ CallerAtRest /\ GenAtRest /\ TextAtRest /\ JudgeAtRest /\ ValAtRest
        /\ MergeAtRest /\ BotAtRest
InitText ==
    TextInit /\ CallerAtRest /\ GenAtRest /\ NormAtRest /\ JudgeAtRest /\ ValAtRest
        /\ MergeAtRest /\ BotAtRest
InitJudge ==
    JudgeInit /\ CallerAtRest /\ GenAtRest /\ NormAtRest /\ TextAtRest /\ ValAtRest
        /\ MergeAtRest /\ BotAtRest

SpecCaller == InitCaller /\ [][CallerNext]_vars

SpecGen == InitGen /\ [][GenNext]_vars

SpecNorm == InitNorm /\ [][NormNext]_vars

SpecText == InitText /\ [][TextNext]_vars

SpecJudge == InitJudge /\ [][JudgeNext]_vars

InitValidate ==
    ValInit /\ CallerAtRest /\ GenAtRest /\ NormAtRest /\ TextAtRest /\ JudgeAtRest
        /\ MergeAtRest /\ BotAtRest

SpecValidate == InitValidate /\ [][ValNext]_vars

InitMerge ==
    MergeInit /\ CallerAtRest /\ GenAtRest /\ NormAtRest /\ TextAtRest /\ JudgeAtRest
        /\ ValAtRest /\ BotAtRest

SpecMerge == InitMerge /\ [][MergeNext]_vars

InitBot ==
    BotInit /\ CallerAtRest /\ GenAtRest /\ NormAtRest /\ TextAtRest /\ JudgeAtRest
        /\ ValAtRest /\ MergeAtRest

SpecBot == InitBot /\ [][BotNext]_vars

----------------------------------------------------------------------------
(* Properties of the schema-constrained call (SpecCaller)                   *)

CallEnded == v_pc \in {"returned", "raised"}

\* C1: with a transport that fails stubFails consecutive times and then
\* succeeds, the ended call has returned the decoded result iff
\* stubFails <= max_retries, and it has slept min(stubFails, max_retries) times.
RetryPolicy ==
    (~stubAlways /\ CallEnded) =>
        /\ (v_pc = "returned") <=> (stubFails <= max_retries)
        /\ (v_pc = "returned") => (v_result = stubPayload)
        /\ Len(v_sleeps) = Min(stubFails, max_retries)

RetryPolicyWitness ==
    /\ ~stubAlways
    /\ v_pc = "returned"
    /\ stubFails = 2
    /\ max_retries = DefaultMaxRetries
    /\ Len(v_sleeps) = 2

\* C2: with a transport that always fails, the call never returns a result,
\* never makes more than max_retries + 1 attempts, and raises the
\* retries-exceeded error exactly when attempt max_retries + 1 has failed.
AlwaysFailExhausts ==
    stubAlways =>
        /\ v_pc # "returned"
        /\ v_result = NoResult
        /\ v_calls <= max_retries + 1
        /\ (v_pc = "raised") <=> (v_calls = max_retries + 1)
        /\ (v_pc = "raised") => (v_raised.type = "RecursionError")

AlwaysFailWitness ==
    /\ stubAlways
    /\ v_pc = "raised"
    /\ max_retries = DefaultMaxRetries
    /\ v_calls = DefaultMaxRetries + 1

----------------------------------------------------------------------------
(* Properties of the generator batch (SpecGen)                              *)

GenCallFailed == g_pc = "failed" /\ g_cause # NoCause

\* C3: a transport or decode failure during the generation of a lemma is
\* retried, and ends the lemma's generation only after max_retries + 1
\* attempts have been made for it.
GenFailureIsRetried ==
    GenCallFailed => (g_attempts = DefaultMaxRetries + 1)

\* C4: the error raised when the call for a lemma gives up is the
\* exhausted-retries error (RuntimeError) and it carries the exception of the
\* last failed attempt.
ExhaustedErrorCarriesCause ==
    GenCallFailed =>
        /\ g_raised.type = "RuntimeError"
        /\ (g_raised.cause = g_cause \/ g_raised.context = g_cause)

ContainsDuplicate(words) ==
    \E i, j \in DOMAIN words : i # j /\ words[i] = words[j]

\* C5: a batch whose lemma list contains a duplicate ends with the
\* duplicate-input (assertion) error, with no call made to the model service
\* and nothing written to the output file.
DuplicateBatchRejected ==
    (ContainsDuplicate(WrapWords(g_input)) /\ g_pc # "start") =>
        /\ g_pc = "failed"
        /\ g_raised = AssertionError
        /\ g_calls = 0
        /\ g_writes = 0
        /\ outFile = NoFile

DuplicateBatchWitness ==
    /\ g_pc = "failed"
    /\ g_raised = AssertionError
    /\ g_input = ListInput(<< <<"a">>, <<"a", "b">>, <<"a">> >>)

\* C6: the output file is written at most once, and only when every lemma of
\* the batch has been generated and coerced; a batch that failed has not
\* written to the output file at all.
AllOrNothingWrite ==
    /\ g_writes <= 1
    /\ (g_writes = 1) <=> (g_pc = "done")
    /\ (g_writes = 1) =>
          /\ outFile = [exists |-> TRUE, data |-> g_entries]
          /\ Len(g_entries) = Len(g_words)
          /\ g_calls = Len(g_words)
    /\ (g_writes = 0) => (outFile = NoFile)

MidBatchFailureWitness ==
    /\ GenCallFailed
    /\ Len(g_words) = 3
    /\ Len(g_entries) = 2
    /\ g_writes = 0

----------------------------------------------------------------------------
(* Properties of the coercion (SpecNorm)                                    *)

Coerced == n_pc = "done"

\* C7: in every coerced entry, word is a substring of example_sentence.
LemmaInSentence ==
    Coerced => IsSubstring(n_out.word, n_out.example_sentence)

LemmaInSentenceWitness ==
    /\ Coerced
    /\ n_in.word = <<"a", "b">>
    /\ n_in.example_sentence = <<"b", " ">>
    /\ n_out.example_sentence = <<"b">> \o FallbackClause(<<"a", "b">>)

\* C8: in every coerced entry, article and plural_form are both None or both
\* not None, and they are not None exactly when pos was noun.
ArticlePluralTiedToNoun ==
    Coerced =>
        /\ (n_out.article # None) <=> (n_out.plural_form # None)
        /\ (n_out.article # None) <=> (n_in.pos = "noun")

\* C9: in every coerced entry, noun_form is not None only if pos was verb,
\* verb_form is not None only if pos was noun, they are never both not None,
\* both are None for any other pos, and the entry has no pos field.
FormsTiedToPos ==
    Coerced =>
        /\ ~(n_out.noun_form # None /\ n_out.verb_form # None)
        /\ (n_out.noun_form # None) => (n_in.pos = "verb")
        /\ (n_out.verb_form # None) => (n_in.pos = "noun")
        /\ (n_in.pos \notin {"noun", "verb"}) =>
              (n_out.noun_form = None /\ n_out.verb_form = None)
        /\ "pos" \notin DOMAIN n_out

FormsTiedToPosWitness ==
    /\ Coerced
    /\ n_in.pos = "verb"
    /\ n_in.verb_form # None
    /\ n_in.noun_form = <<"a">>
    /\ n_out.verb_form = None
    /\ n_out.noun_form # None

\* s begins with a bracketed article: "<", one or more non-">" characters, ">"
HasArticlePrefix(s) ==
    /\ Len(s) >= 3
    /\ s[1] = "<"
    /\ \E i \in 3..Len(s) :
         /\ s[i] = ">"
         /\ \A j \in 2..(i - 1) : s[j] # ">"

\* C10: for pos verb, verb_form is None, a noun_form returned without the
\* bracketed-article prefix is emitted as "<die>" followed by it, a noun_form
\* of the format <article>Nominalization is emitted unchanged, and every
\* noun_form that is not None has that format.
NounFormFormatted ==
    (Coerced /\ n_in.pos = "verb") =>
        /\ n_out.verb_form = None
        /\ (n_in.noun_form # None /\ ~HasArticlePrefix(n_in.noun_form)) =>
              (n_out.noun_form = DiePrefix \o n_in.noun_form)
        /\ (n_in.noun_form # None /\ HasArticleFormat(n_in.noun_form)) =>
              (n_out.noun_form = n_in.noun_form)
        /\ (n_out.noun_form # None) => HasArticleFormat(n_out.noun_form)

----------------------------------------------------------------------------
(* Properties of the normalisers (SpecText)                                 *)

TextDone == t_pc = "done"

\* C20 as stated: for every string w, norm_de_word(w) equals norm_de_word of
\* w with every "|" removed.
PipeInsensitive ==
    TextDone => (t_out.norm_word = t_out.norm_word_unmarked)

\* a whitespace-delimited token of w that consists of "|" marks only
HasLonePipeToken(w) ==
    \E i \in 1..Len(w) : \E j \in i..Len(w) :
        /\ \A k \in i..j : w[k] = "|"
        /\ (i = 1 \/ w[i - 1] \in Whitespace)
        /\ (j = Len(w) \/ w[j + 1] \in Whitespace)

\* C20 amended: for every string w none of whose whitespace-delimited tokens
\* consists only of "|" marks, norm_de_word(w) equals norm_de_word of w with
\* every "|" removed.
PipeInsensitiveInsideTokens ==
    (TextDone /\ ~HasLonePipeToken(t_in)) =>
        (t_out.norm_word = t_out.norm_word_unmarked)

PipeInsensitiveWitness ==
    /\ TextDone
    /\ t_in = <<"a", "|", "a">>
    /\ t_out.norm_word = <<"a", "a">>
    /\ t_out.norm_word_unmarked = <<"a", "a">>

MarkerStripped == t_pc = "stripped" /\ t_out.marker # <<>>

\* C21 as stated: for every string v and every spelling of the marker,
\* norm_de_reflexive_verb(marker + v) equals norm_de_word(v).
ReflexiveMarkerStripped ==
    MarkerStripped => (t_out.norm_reflexive = t_out.norm_word)

\* the first whitespace-delimited token of v exists and holds a character
\* other than "|"
FirstTokenHasLetter(v) ==
    LET s == LStrip(v)
    IN  \E i \in 1..Len(s) :
            /\ s[i] \notin Whitespace \cup {"|"}
            /\ \A j \in 1..i : s[j] \notin Whitespace

\* C21 amended: for every string v whose first whitespace-delimited token
\* holds a character other than "|", and every spelling of the marker,
\* norm_de_reflexive_verb(marker + v) equals norm_de_word(v).
ReflexiveMarkerStrippedBeforeWord ==
    (MarkerStripped /\ FirstTokenHasLetter(t_in)) =>
        (t_out.norm_reflexive = t_out.norm_word)

ReflexiveMarkerStrippedWitness ==
    /\ MarkerStripped
    /\ t_out.marker = <<"S", "i", "c", "h", " ">>
    /\ t_in = <<"a", "|", "a", " ">>
    /\ t_out.norm_reflexive = <<"a", "a">>

----------------------------------------------------------------------------
(* Properties of the field judgements (SpecJudge)                           *)

Judged(field) == j_pc = "done" /\ j_case.field = field

\* C15: the explanation_de item passes iff the normalised, lower-cased word
\* equals the normalised, lower-cased form of some returned candidate, and it
\* reports the returned candidates in their order.
ExplanationVerdict ==
    Judged("explanation_de") =>
        /\ j_verdict.pass <=>
              \E i \in DOMAIN j_case.candidates :
                  Lower(norm_de_word(j_case.word))
                      = Lower(norm_de_word(j_case.candidates[i]))
        /\ j_verdict.candidates = j_case.candidates
        /\ j_verdict.field = "explanation_de"

ExplanationVerdictWitness ==
    /\ Judged("explanation_de")
    /\ j_case.word = <<"A", "|">>
    /\ j_case.candidates = << <<"A", "A">>, <<"A">> >>
    /\ j_verdict.pass

StoredTokens == LET parts == SplitCommas(j_case.stored)
                IN  {Lower(Strip(parts[i])) : i \in DOMAIN parts}

\* C16 as stated: the translation_en item passes iff some trimmed, lower-cased
\* comma-separated token of the stored value equals a lower-cased returned
\* candidate.
TranslationVerdictVerbatim ==
    Judged("translation_en") =>
        (j_verdict.pass <=>
            \E i \in DOMAIN j_case.candidates :
                Lower(j_case.candidates[i]) \in StoredTokens)

\* C16 amended: the translation_en item passes iff some trimmed, lower-cased
\* comma-separated token of the stored value equals a trimmed, lower-cased
\* returned candidate.
TranslationVerdict ==
    Judged("translation_en") =>
        (j_verdict.pass <=>
            \E i \in DOMAIN j_case.candidates :
                Lower(Strip(j_case.candidates[i])) \in StoredTokens)

TranslationVerdictWitness ==
    /\ Judged("translation_en")
    /\ j_case.stored = <<"a", ",", "A">>
    /\ j_case.candidates = << <<"A", "A">>, <<"A">> >>
    /\ j_case.field = "translation_en"
    /\ j_verdict.pass

InFormat(s) == HasArticleFormat(norm_basic(s))

\* articles equal ignoring case and nouns equal ignoring case
PartsAgreeIgnoringCase(s, t) ==
    /\ Lower(ArticleOf(norm_basic(s))) = Lower(ArticleOf(norm_basic(t)))
    /\ Lower(NounOf(norm_basic(s))) = Lower(NounOf(norm_basic(t)))

\* the same, also ignoring the whitespace around the article and the noun
PartsAgreeTrimmed(s, t) ==
    /\ Lower(Strip(ArticleOf(norm_basic(s)))) = Lower(Strip(ArticleOf(norm_basic(t))))
    /\ Lower(Strip(NounOf(norm_basic(s)))) = Lower(Strip(NounOf(norm_basic(t))))

FormatCase ==
    /\ Judged("noun_form")
    /\ InFormat(j_case.stored)
    /\ \A i \in DOMAIN j_case.candidates : InFormat(j_case.candidates[i])

----------------------------------------------------------------------------
(* Properties of validate_entry and main (SpecValidate)                     *)

\* validate_entry has left the entry main handed to it
EntryLeft == m_pc = "validating" /\ e_pc \in {"returned", "raised"}

TruthyFields == {f \in CheckedFields : Truthy(CurrentEntry[f])}

\* C11: when validate_entry returns for an entry with a non-empty
\* example_sentence, the returned results hold an item for the field
\* example_sentence with pass = true and no candidates, and no model call was
\* made for that field.
ExampleSentenceReported ==
    (m_pc = "validating" /\ e_pc = "returned" /\ Truthy(CurrentEntry.example_sentence))
        => /\ "example_sentence" \notin e_called
           /\ \E k \in DOMAIN e_ret :
                e_ret[k] = [field |-> "example_sentence", pass |-> TRUE,
                            candidates |-> <<>>]

\* C12: whatever subset of the checked fields is absent or empty, and as long
\* as no call runs out of retries, validate_entry returns without error, calls
\* the model for no absent or empty field, and returns exactly one verdict per
\* present non-empty field and none for the others.
PartialEntryValidated ==
    (EntryLeft /\ e_exhaustedAt = "none")
        => /\ e_pc = "returned"
           /\ e_raised = NoError
           /\ e_called \subseteq TruthyFields
           /\ {e_ret[k].field : k \in DOMAIN e_ret} = TruthyFields
           /\ Len(e_ret) = Cardinality(TruthyFields)

\* C13: once the call for one field has run out of retries, validate_entry
\* has been left by the RecursionError, it has returned nothing (the verdicts
\* of earlier fields are lost with its local list), no later field has been
\* checked, and main's report holds nothing for the entry.
ExhaustionAbortsEntry ==
    e_exhaustedAt # "none"
        => /\ e_pc = "raised"
           /\ e_raised.type = "RecursionError"
           /\ e_ret = NoReturn
           /\ \A f \in e_called : Position(f) <= Position(e_exhaustedAt)
           /\ Len(m_report) < m_i

\* the call for `opposite` is exhausted after two verdicts were computed and
\* with a noun_form check still to come
ExhaustionAbortsEntryWitness ==
    /\ e_exhaustedAt = "opposite"
    /\ e_pc = "raised"
    /\ Len(e_results) = 2
    /\ Truthy(CurrentEntry.noun_form)
    /\ CurrentEntry.example_sentence # Absent

\* C14: a run in which the validation of one entry ended in retry exhaustion
\* still visits every entry of the batch, writes the report file and prints
\* the summary of total checks and failures.
BatchSurvivesExhaustion ==
    (e_exhaustedAt # "none" /\ m_pc \in {"written", "aborted"})
        => /\ m_pc = "written"
           /\ m_i = Len(m_db) + 1
           /\ reportFile.exists
           /\ m_summary # NoSummary

----------------------------------------------------------------------------
(* Properties of update_database (SpecMerge)                                *)

\* the database list as it was loaded, and the word keys it holds
LoadedDb == IF u_args.db.exists THEN u_args.db.data ELSE <<>>
LoadedKeys == {Get(LoadedDb[k], "word") : k \in DOMAIN LoadedDb} \ {None}

Merging == u_pc \in {"loop", "done"}

\* the word keys of the first n input records, whatever their value
WordKeysGiven(n) == {u_input[k].word : k \in {j \in 1..n : "word" \in DOMAIN u_input[j]}}

\* the non-empty words among them
WordsGiven(n) == {w \in WordKeysGiven(n) : w # None /\ w # <<>>}

\* the input record just processed, when there is one
JustProcessed == u_input[u_i - 1]

\* C18 (as stated): after any number of processed input records the database
\* holds the records it was loaded with plus one record per distinct word key
\* of those input records that the database did not hold, and a record whose
\* word key is neither in the loaded database nor earlier in the input is the
\* last record of the database, verbatim.
NewKeysAddedForAnyKey ==
    Merging =>
        /\ Len(u_db) = Len(LoadedDb)
               + Cardinality(WordKeysGiven(u_i - 1) \ LoadedKeys)
        /\ (/\ u_i > 1
            /\ "word" \in DOMAIN JustProcessed
            /\ JustProcessed.word \notin LoadedKeys \cup WordKeysGiven(u_i - 2))
               => u_db[Len(u_db)] = JustProcessed

\* C18 (amended): the same for non-empty word keys; a record whose word is
\* missing, null or empty adds nothing.
NewKeysAdded ==
    Merging =>
        /\ Len(u_db) = Len(LoadedDb)
               + Cardinality(WordsGiven(u_i - 1) \ LoadedKeys)
        /\ (/\ u_i > 1
            /\ Get(JustProcessed, "word") \in WordsGiven(u_i - 1)
            /\ Get(JustProcessed, "word") \notin LoadedKeys \cup WordsGiven(u_i - 2))
               => u_db[Len(u_db)] = JustProcessed
        /\ (u_i > 1 /\ Get(JustProcessed, "word") \notin WordsGiven(u_i - 1))
               => Len(u_db) = Len(LoadedDb)
                      + Cardinality(WordsGiven(u_i - 2) \ LoadedKeys)

\* a second record of the new word "c", with a null field, has just been
\* appended after a first new record and a record of a stored word
NewKeysAddedWitness ==
    /\ u_pc = "done"
    /\ Len(LoadedDb) = 1
    /\ Len(u_input) = 2
    /\ u_input[2] = Rec(<<"c">>, None, <<"x">>)
    /\ Get(u_input[1], "word") = <<"a">>
    /\ dbFile.data = Append(LoadedDb, u_input[2])

\* the stored record an incoming word refers to: the last one with that word
StoredIndex(db, w) ==
    CHOOSE k \in DOMAIN db :
        /\ Get(db[k], "word") = w
        /\ \A j \in DOMAIN db : Get(db[j], "word") = w => j <= k

\* a step that processes an input record whose word is already in the database
ExistingKeyStep ==
    /\ u_pc = "loop"
    /\ u_i' = u_i + 1
    /\ Truthy(Get(u_input[u_i], "word"))
    /\ \E k \in DOMAIN u_db : Get(u_db[k], "word") = Get(u_input[u_i], "word")

\* C19: a step that processes an input record whose word key already exists
\* keeps the number of records, and changes field f of record k only if k is
\* the stored record of that word, f is not `word`, and the incoming value of
\* f is non-null and differs from the stored one (it then becomes the stored
\* value); every other field of every record, the fields the incoming record
\* gives as null or does not mention among them, stays as it was.
ExistingKeyFrame ==
    [][ExistingKeyStep =>
        LET entry == u_input[u_i]
            idx == StoredIndex(u_db, Get(entry, "word"))
        IN  /\ Len(u_db') = Len(u_db)
            /\ \A k \in DOMAIN u_db :
                 \A f \in DOMAIN u_db[k] \cup DOMAIN u_db'[k] :
                    (f \notin DOMAIN u_db'[k] \/ f \notin DOMAIN u_db[k]
                        \/ u_db'[k][f] # u_db[k][f])
                    => /\ k = idx
                       /\ f # "word"
                       /\ f \in DOMAIN entry
                       /\ entry[f] # None
                       /\ entry[f] # Get(u_db[k], f)
                       /\ f \in DOMAIN u_db'[k]
                       /\ u_db'[k][f] = entry[f]]_vars

\* the record of "a" got the incoming opposite "q" and kept its level, which
\* the incoming record gives as null, next to an untouched record of "b"
ExistingKeyFrameWitness ==
    /\ u_pc = "loop"
    /\ u_i = 2
    /\ u_input[1] = Rec(<<"a">>, <<"q">>, None)
    /\ LoadedDb = <<Rec(<<"a">>, <<"p">>, <<"x">>), Rec(<<"b">>, Absent, <<"x">>)>>
    /\ u_db = <<Rec(<<"a">>, <<"q">>, <<"x">>), Rec(<<"b">>, Absent, <<"x">>)>>

\* C25: when update_database has run a second time with the same input file
\* against the database file the first run wrote, the file it writes holds
\* the same records, in the same order and with the same fields and values,
\* as the file of the first run.
MergeIdempotent ==
    (u_run = 2 /\ u_pc = "done") => dbFile = u_first

\* the second run has finished for an input with two records of the word
\* "a" that give different opposites: it overwrote the stored opposite twice
\* on its way and wrote the record the first run had written
MergeIdempotentWitness ==
    /\ u_run = 2
    /\ u_pc = "done"
    /\ u_input = <<Rec(<<"a">>, <<"q">>, None), Rec(<<"a">>, <<"p">>, <<"x">>)>>
    /\ u_stats.words_updated = 2
    /\ dbFile.data = <<Rec(<<"a">>, <<"p">>, <<"x">>)>>

----------------------------------------------------------------------------
(* Properties of the bot session (SpecBot)                                  *)

\* C22: whenever active_exercise is true the stored current_answer is a
\* string (not null, not unset), and no text message has made check_answer
\* raise.
ActiveAnswerIsString ==
    /\ active_exercise => current_answer \notin {None, Absent}
    /\ b_event.kind = "text" => b_event.raised = "none"

\* C23: a text message that found an active exercise sent exactly one reply
\* and left active_exercise false and current_answer null, whether the answer
\* was right or wrong; a text message that found none sent no reply and left
\* the session as it was.
AnswerEndsExercise ==
    b_event.kind = "text" =>
        IF b_event.before.active
            THEN /\ b_event.replies = 1
                 /\ ~active_exercise
                 /\ current_answer = None
            ELSE /\ b_event.replies = 0
                 /\ Session = b_event.before

\* cmd_hint has replied to a /hint that found an active exercise and at least
\* 4 entries
HintReplied ==
    /\ b_event.kind = "/hint"
    /\ b_event.replies = 1
    /\ b_event.before.active
    /\ Len(WORDS_DB) >= MinHintDb

\* the option the reply presents for the correct answer
ShownOption ==
    IF b_event.before.type = 1
        THEN Strip(SplitCommas(b_event.before.answer)[1])
        ELSE b_event.before.answer

\* the parts of the hint's contract that do not depend on how a distractor is
\* compared with the answer: at most 50 draws, no exception, at most 4
\* options, the distractors and the shown answer among them, pairwise
\* distinct distractors, an unchanged session
HintReplyShape ==
    /\ attempts <= MaxHintAttempts
    /\ b_event.kind = "/hint" => b_event.raised = "none"
    /\ HintReplied =>
          LET wrong == b_event.wrong
          IN  /\ Len(b_event.options) <= 4
              /\ Len(b_event.options) = Len(wrong) + 1
              /\ \E k \in DOMAIN b_event.options : b_event.options[k] = ShownOption
              /\ \A k \in DOMAIN wrong :
                    \E j \in DOMAIN b_event.options : b_event.options[j] = wrong[k]
              /\ \A j, k \in DOMAIN wrong : wrong[j] = wrong[k] => j = k
              /\ Session = b_event.before

\* no distractor equals, ignoring case, the whole stored answer string
DistractorsDifferFromStoredAnswer ==
    HintReplied =>
        \A k \in DOMAIN b_event.wrong :
            Lower(b_event.wrong[k]) # Lower(b_event.before.answer)

\* C24: the distractor search never makes more than 50 draws; the reply of a
\* /hint with an active exercise and at least 4 entries lists at most 4
\* options, among them the correct answer (for type 1 its first
\* comma-separated alternative); the distractors are pairwise distinct and
\* none equals that correct answer ignoring case; active_exercise,
\* current_answer and exercise_type are what the command found.
HintIsSafe ==
    /\ HintReplyShape
    /\ HintReplied =>
          \A k \in DOMAIN b_event.wrong :
              Lower(b_event.wrong[k]) # Lower(ShownOption)

====
